---- MODULE Spec2Model ----
(***************************************************************************)
(* Model of backend/services/tenderService.js: the tender risk engine      *)
(* (analyzeTenderRisks, generateSummary, formatAmount) and the AI-backed   *)
(* narrative call with its local fallback (aiAnalyzeTender); of the        *)
(* air-quality service listed in README.md (getStationsInBounds,           *)
(* getStationDetails, getPollutantStatus, getAqiStatus,                    *)
(* getAllAirQualityData); of the route GET /station/:id of                 *)
(* backend/routes/api.js; and of the page script frontend/js/main.js       *)
(* (loadAirQualityData with its loading overlay, startAutoUpdate,          *)
(* handleAIAnalyze, analyzeTenderWithAI).                                  *)
(*                                                                         *)
(* Units.  Instants (JS Date values, milliseconds in the source) are       *)
(* counted in clock ticks, DayTicks ticks to the day; tick 0 is midnight,  *)
(* 1 January, and the month of an instant follows a 365-day calendar.      *)
(* Amounts (tenge in the source) are counted in millions of tenge, so the  *)
(* source's 1000000000 is Billion = 1000 and 1000000 is Million = 1.       *)
(* Pollutant readings (floats in the source) are counted in steps of       *)
(* 1 / Resolution of their unit.                                           *)
(***************************************************************************)
EXTENDS Integers, Sequences, FiniteSets, TLC

\* the tender engine and aiAnalyzeTender
VARIABLES tender, apiKey, clock, last, prev, pc, net, body, result, calls

\* the latest calls of getPollutantStatus and of getAqiStatus
VARIABLES pollutantCall, aqiCall

\* the route GET /station/:id and getTenderById
VARIABLES stPc, stId, stNet, stResult, stHttp, lookup

\* getAllAirQualityData
VARIABLES allPc, boundsNet, detNet, allResult

tenderVars == <<tender, apiKey, clock, last, prev, pc, net, body, result, calls>>

classVars == <<pollutantCall, aqiCall>>

stationVars == <<stPc, stId, stNet, stResult, stHttp, lookup>>

allVars == <<allPc, boundsNet, detNet, allResult>>

airVars == <<classVars, stationVars, allVars>>

\* the page: the active tab, the loading overlays and their removal timers,
\* the calls of loadAirQualityData in flight, the auto-update interval
VARIABLES activeTab, overlays, timers, awaitingFetch, awaitingJson, started,
          airQualityData, updateInterval, intervals, refresh

\* the page: the analyze buttons and the calls of their handlers
VARIABLES airBtn, airCall, tenderBtn, tendersData, tenderCalls

loadVars == <<activeTab, overlays, timers, awaitingFetch, awaitingJson, started,
              airQualityData, updateInterval, intervals, refresh>>

buttonVars == <<airBtn, airCall, tenderBtn, tendersData, tenderCalls>>

pageVars == <<loadVars, buttonVars>>

vars == <<tenderVars, airVars, pageVars>>

(***************************************************************************)
(* Bounds of the model.                                                    *)
(***************************************************************************)
DayTicks == 2
MaxClock == 2
Resolution == 100
MaxStations == 3
MaxLoads == 3

(***************************************************************************)
(* Arithmetic helpers for the JS Math functions used by the source.        *)
(***************************************************************************)
\* Math.ceil(a / b) for b > 0 (TLC's \div rounds towards minus infinity).
Ceil(a, b) == -((-a) \div b)

\* Math.round(a / b) for b > 0: halves round towards plus infinity.
Round(a, b) == (2 * a + b) \div (2 * b)

\* Math.min
Min(a, b) == IF a < b THEN a ELSE b

(***************************************************************************)
(* Calendar: Date.prototype.getMonth() of an instant.                      *)
(***************************************************************************)
YearDays == 365

MonthStart == <<0, 31, 59, 90, 120, 151, 181, 212, 243, 273, 304, 334>>

\* day number (0 = 1 January of the first year) of a calendar date,
\* month 0-11 as in JS, day of month 1-31
DayOf(year, month, dom) == year * YearDays + MonthStart[month + 1] + (dom - 1)

getMonth(instant) ==
  LET doy == (instant \div DayTicks) % YearDays
  IN  CHOOSE m \in 0..11 :
        /\ MonthStart[m + 1] <= doy
        /\ (m = 11 \/ doy < MonthStart[m + 2])

\* new Date(dateString) for a date-only string: midnight of that day
Date(year, month, dom) == DayOf(year, month, dom) * DayTicks

(***************************************************************************)
(* Amount units.                                                           *)
(***************************************************************************)
Million == 1
Billion == 1000

\* formatAmount(amount): the rendered amount, as <<unit, digits>>;
\* toFixed(1) of amount / 1e9 is kept in tenths, toFixed(0) of amount / 1e6
\* in whole millions
formatAmount(amount) ==
  IF amount >= Billion THEN <<"mlrd", Round(amount * 10, Billion)>>
  ELSE IF amount >= Million THEN <<"mln", Round(amount, Million)>>
  ELSE <<"tenge", amount>>

\* formatMonth(monthIndex)
formatMonth(monthIndex) ==
  <<"yanvar", "fevral", "mart", "aprel", "may", "iyun",
    "iyul", "avgust", "sentyabr", "oktyabr", "noyabr", "dekabr">>[monthIndex + 1]

(***************************************************************************)
(* The rule engine, analyzeTenderRisks.  Each rule block of the function   *)
(* is an operator giving the block's effect: what it adds to riskScore and *)
(* what it pushes on risks, warnings and recommendations.                  *)
(***************************************************************************)
NoEffect == [score |-> 0, risks |-> <<>>, warnings |-> <<>>, recs |-> <<>>]

winterMonths == {10, 11, 0, 1, 2}

\* variant: medical tenders are winter-sensitive too
winterRiskCategories_WithMedical == {"construction", "medical"}

winterRiskCategories == {"construction"}

startMonth(t) == getMonth(t.executionStart)

endMonth(t) == getMonth(t.executionEnd)

\* variant: only the start month is tested
isWinterExecution_StartOnly(t) == startMonth(t) \in winterMonths

isWinterExecution(t) ==
  startMonth(t) \in winterMonths \/ endMonth(t) \in winterMonths

\* the comparisons amountInBillions >= 2, >= 1, >= 0.5 on tender.amount / 1e9
AtLeastBillions(t, halves) == 2 * t.amount >= halves * Billion

\* seasonal block
SeasonalRule(t) ==
  IF isWinterExecution(t) /\ t.category \in winterRiskCategories
  THEN [score |-> 35,
        risks |-> << [type |-> "seasonal", severity |-> "high",
                      title |-> "Sezonnyy risk",
                      description |-> <<formatMonth(startMonth(t)),
                                        formatMonth(endMonth(t))>>] >>,
        warnings |-> <<>>,
        recs |-> << [type |-> "timing", title |-> "Perenos srokov"] >>]
  ELSE NoEffect

\* variant: the second test is a plain if, not an else-if
FinancialRule_BothBranches(t) ==
  LET high == [score |-> 25,
               risks |-> << [type |-> "financial", severity |-> "high",
                             title |-> "Vysokaya stoimost kontrakta",
                             description |-> formatAmount(t.amount)] >>,
               warnings |-> <<>>,
               recs |-> << [type |-> "control", title |-> "Poetapnyy kontrol"] >>]
      medium == [score |-> 15,
                 risks |-> <<>>,
                 warnings |-> << [type |-> "financial", severity |-> "medium",
                                  title |-> "Znachitelnaya summa kontrakta",
                                  description |-> formatAmount(t.amount)] >>,
                 recs |-> <<>>]
  IN  IF AtLeastBillions(t, 4)
      THEN [score |-> high.score + medium.score, risks |-> high.risks,
            warnings |-> medium.warnings, recs |-> high.recs]
      ELSE IF AtLeastBillions(t, 2) THEN medium
      ELSE NoEffect

\* financial block
FinancialRule(t) ==
  IF AtLeastBillions(t, 4)
  THEN [score |-> 25,
        risks |-> << [type |-> "financial", severity |-> "high",
                      title |-> "Vysokaya stoimost kontrakta",
                      description |-> formatAmount(t.amount)] >>,
        warnings |-> <<>>,
        recs |-> << [type |-> "control", title |-> "Poetapnyy kontrol"] >>]
  ELSE IF AtLeastBillions(t, 2)
  THEN [score |-> 15,
        risks |-> <<>>,
        warnings |-> << [type |-> "financial", severity |-> "medium",
                         title |-> "Znachitelnaya summa kontrakta",
                         description |-> formatAmount(t.amount)] >>,
        recs |-> <<>>]
  ELSE NoEffect

\* variant: Math.floor in place of Math.ceil
daysToDeadline_Floor(t, now) == (t.deadline - now) \div DayTicks

daysToDeadline(t, now) == Ceil(t.deadline - now, DayTicks)

\* variant: Math.floor in place of Math.ceil
executionDays_Floor(t) == (t.executionEnd - t.executionStart) \div DayTicks

executionDays(t) == Ceil(t.executionEnd - t.executionStart, DayTicks)

\* variant: the test daysToDeadline > 0 is missing
DeadlineRule_NoPositiveCheck(t, now) ==
  IF daysToDeadline(t, now) < 10
  THEN [score |-> 15,
        risks |-> <<>>,
        warnings |-> << [type |-> "deadline", severity |-> "medium",
                         title |-> "Szhatye sroki podachi zayavok",
                         description |-> <<daysToDeadline(t, now)>>] >>,
        recs |-> <<>>]
  ELSE NoEffect

\* deadline block
DeadlineRule(t, now) ==
  IF daysToDeadline(t, now) < 10 /\ daysToDeadline(t, now) > 0
  THEN [score |-> 15,
        risks |-> <<>>,
        warnings |-> << [type |-> "deadline", severity |-> "medium",
                         title |-> "Szhatye sroki podachi zayavok",
                         description |-> <<daysToDeadline(t, now)>>] >>,
        recs |-> <<>>]
  ELSE NoEffect

\* variant: the comparison is reversed
TimelineTooShort_Reversed(t) ==
  executionDays(t) * Billion * 10 > t.amount * 3 * 7 * 30

\* monthsForExecution < expectedMonths * 0.7, that is
\* executionDays / 30 < (amount / 1e9) * 3 * 0.7, cleared of fractions.
\* The doubles of the source give the same outcome for every whole amount:
\* the two sides are equal only at whole billions with 63 days per billion,
\* where the product by the double 0.7 (which lies below 7/10) does not
\* exceed the correctly rounded quotient; elsewhere the sides differ by at
\* least 1 / (3 * 10^10), far above the rounding error.
TimelineTooShort(t) == executionDays(t) * Billion * 10 < t.amount * 3 * 7 * 30

\* variant: the category test is missing
TimelineRule_AnyCategory(t) ==
  IF AtLeastBillions(t, 1) /\ TimelineTooShort(t)
  THEN [score |-> 20,
        risks |-> << [type |-> "timeline", severity |-> "high",
                      title |-> "Nerealistichnye sroki vypolneniya",
                      description |-> <<Round(executionDays(t), 30),
                                        formatAmount(t.amount)>>] >>,
        warnings |-> <<>>,
        recs |-> <<>>]
  ELSE NoEffect

\* timeline block
TimelineRule(t) ==
  IF t.category = "construction" /\ AtLeastBillions(t, 1) /\ TimelineTooShort(t)
  THEN [score |-> 20,
        risks |-> << [type |-> "timeline", severity |-> "high",
                      title |-> "Nerealistichnye sroki vypolneniya",
                      description |-> <<Round(executionDays(t), 30),
                                        formatAmount(t.amount)>>] >>,
        warnings |-> <<>>,
        recs |-> <<>>]
  ELSE NoEffect

\* variant: the amount test is >= 2 billion
CombinedRule_TwoBillion(t) ==
  IF /\ isWinterExecution(t)
     /\ t.category \in winterRiskCategories
     /\ AtLeastBillions(t, 4)
  THEN [score |-> 20,
        risks |-> << [type |-> "combined", severity |-> "critical",
                      title |-> "Kombinirovannyy risk",
                      description |-> formatAmount(t.amount)] >>,
        warnings |-> <<>>,
        recs |-> << [type |-> "guarantee", title |-> "Usilenie garantiy"] >>]
  ELSE NoEffect

\* variant: the winter test is missing
CombinedRule_AnySeason(t) ==
  IF t.category \in winterRiskCategories /\ AtLeastBillions(t, 2)
  THEN [score |-> 20,
        risks |-> << [type |-> "combined", severity |-> "critical",
                      title |-> "Kombinirovannyy risk",
                      description |-> formatAmount(t.amount)] >>,
        warnings |-> <<>>,
        recs |-> << [type |-> "guarantee", title |-> "Usilenie garantiy"] >>]
  ELSE NoEffect

\* combined block
CombinedRule(t) ==
  IF /\ isWinterExecution(t)
     /\ t.category \in winterRiskCategories
     /\ AtLeastBillions(t, 2)
  THEN [score |-> 20,
        risks |-> << [type |-> "combined", severity |-> "critical",
                      title |-> "Kombinirovannyy risk",
                      description |-> formatAmount(t.amount)] >>,
        warnings |-> <<>>,
        recs |-> << [type |-> "guarantee", title |-> "Usilenie garantiy"] >>]
  ELSE NoEffect

\* variant: the medical block also raises the score
MedicalRule_Scored(t) ==
  IF t.category = "medical" /\ AtLeastBillions(t, 1)
  THEN [score |-> 10,
        risks |-> <<>>,
        warnings |-> << [type |-> "category", severity |-> "medium",
                         title |-> "Importnoe oborudovanie",
                         description |-> <<>>] >>,
        recs |-> << [type |-> "currency", title |-> "Valyutnye riski"] >>]
  ELSE NoEffect

\* category blocks
MedicalRule(t) ==
  IF t.category = "medical" /\ AtLeastBillions(t, 1)
  THEN [score |-> 0,
        risks |-> <<>>,
        warnings |-> << [type |-> "category", severity |-> "medium",
                         title |-> "Importnoe oborudovanie",
                         description |-> <<>>] >>,
        recs |-> << [type |-> "currency", title |-> "Valyutnye riski"] >>]
  ELSE NoEffect

\* variant: the it block also pushes a category warning
ItRule_WithWarning(t) ==
  IF t.category = "it"
  THEN [score |-> 0, risks |-> <<>>,
        warnings |-> << [type |-> "category", severity |-> "medium",
                         title |-> "Tekhnicheskaya podderzhka",
                         description |-> <<>>] >>,
        recs |-> << [type |-> "support", title |-> "Tekhnicheskaya podderzhka"] >>]
  ELSE NoEffect

ItRule(t) ==
  IF t.category = "it"
  THEN [score |-> 0, risks |-> <<>>, warnings |-> <<>>,
        recs |-> << [type |-> "support", title |-> "Tekhnicheskaya podderzhka"] >>]
  ELSE NoEffect

\* variant: the combined block runs before the timeline block
Effects_CombinedFirst(t, now) ==
  << SeasonalRule(t), FinancialRule(t), DeadlineRule(t, now), CombinedRule(t),
     TimelineRule(t), MedicalRule(t), ItRule(t) >>

\* the blocks in the order the function runs them
Effects(t, now) ==
  << SeasonalRule(t), FinancialRule(t), DeadlineRule(t, now), TimelineRule(t),
     CombinedRule(t), MedicalRule(t), ItRule(t) >>

RECURSIVE SumScore(_)
SumScore(es) == IF es = <<>> THEN 0 ELSE Head(es).score + SumScore(Tail(es))

RECURSIVE Pushed(_, _)
Pushed(es, field) ==
  IF es = <<>> THEN <<>> ELSE Head(es)[field] \o Pushed(Tail(es), field)

\* variant: the score is not limited
ClampScore_Unclamped(raw) == raw

\* riskScore = Math.min(riskScore, 100)
ClampScore(raw) == Min(raw, 100)

\* variant: strict comparisons at the cutoffs
RiskLevel_StrictCutoff(score) ==
  IF score > 60 THEN "high"
  ELSE IF score > 30 THEN "medium"
  ELSE "low"

\* the riskLevel if / else-if chain
RiskLevel(score) ==
  IF score >= 60 THEN "high"
  ELSE IF score >= 30 THEN "medium"
  ELSE "low"

levelText(level) ==
  CASE level = "low" -> "nizkiy"
    [] level = "medium" -> "sredniy"
    [] level = "high" -> "vysokiy"

RECURSIVE Bullets(_)
Bullets(findings) ==
  IF findings = <<>> THEN <<>>
  ELSE << <<"bullet", Head(findings).title>> >> \o Bullets(Tail(findings))

\* variant: the warnings section is written before the risks section
generateSummary_WarningsFirst(t, riskScore, riskLevel, risks, warnings) ==
  << <<"header", riskScore, levelText(riskLevel)>> >> \o
  ( IF Len(risks) = 0 /\ Len(warnings) = 0
    THEN << <<"no-significant-risks", t.title>> >>
    ELSE << <<"needs-attention", t.title>> >> \o
         ( IF Len(warnings) > 0
           THEN << <<"warnings", Len(warnings)>> >> \o Bullets(warnings)
           ELSE <<>> ) \o
         ( IF Len(risks) > 0
           THEN << <<"risks", Len(risks)>> >> \o Bullets(risks) \o << <<"blank">> >>
           ELSE <<>> ) )

\* generateSummary: the text as the sequence of its pieces
generateSummary(t, riskScore, riskLevel, risks, warnings) ==
  << <<"header", riskScore, levelText(riskLevel)>> >> \o
  ( IF Len(risks) = 0 /\ Len(warnings) = 0
    THEN << <<"no-significant-risks", t.title>> >>
    ELSE << <<"needs-attention", t.title>> >> \o
         ( IF Len(risks) > 0
           THEN << <<"risks", Len(risks)>> >> \o Bullets(risks) \o << <<"blank">> >>
           ELSE <<>> ) \o
         ( IF Len(warnings) > 0
           THEN << <<"warnings", Len(warnings)>> >> \o Bullets(warnings)
           ELSE <<>> ) )

\* analyzeTenderRisks(tender), with the value of its new Date() as now
analyzeTenderRisks(t, now) ==
  LET es == Effects(t, now)
      riskScore == ClampScore(SumScore(es))
      riskLevel == RiskLevel(riskScore)
      risks == Pushed(es, "risks")
      warnings == Pushed(es, "warnings")
  IN  [riskScore |-> riskScore,
       riskLevel |-> riskLevel,
       risks |-> risks,
       warnings |-> warnings,
       recommendations |-> Pushed(es, "recs"),
       summary |-> generateSummary(t, riskScore, riskLevel, risks, warnings)]

(***************************************************************************)
(* Inputs: the tenders the engine is run on.                               *)
(***************************************************************************)
Categories == {"construction", "medical", "it", "other"}

Amounts == {100, 500, 1000, 1500, 2000, 2500}

\* execution windows <<executionStart, executionEnd>>, start <= end
Windows ==
  { <<Date(0, 0, 15), Date(0, 2, 1)>>,     \* 15 Jan - 1 Mar, 45 days
    <<Date(0, 5, 1), Date(0, 7, 3)>>,      \* 1 Jun - 3 Aug, 63 days
    <<Date(0, 9, 1), Date(0, 10, 15)>>,    \* 1 Oct - 15 Nov, 45 days
    <<Date(0, 10, 10), Date(1, 3, 20)>>,   \* 10 Nov - 20 Apr, 161 days
    <<Date(0, 3, 1), Date(0, 9, 31)>> }    \* 1 Apr - 31 Oct, 213 days

\* deadlines: passed, later today, in 5 days, around 10 days, in 60 days
Deadlines ==
  {0, 1, 5 * DayTicks, 10 * DayTicks - 1, 10 * DayTicks, 60 * DayTicks}

Tenders ==
  { [title |-> "tender", category |-> c, amount |-> a,
     executionStart |-> w[1], executionEnd |-> w[2], deadline |-> d] :
    c \in Categories, a \in Amounts, w \in Windows, d \in Deadlines }

(***************************************************************************)
(* The classifiers of the air-quality data.  A JS value that may be null,  *)
(* undefined or NaN is a record tagged with its kind.                      *)
(***************************************************************************)
JsNull == [t |-> "null"]

JsUndefined == [t |-> "undefined"]

JsNaN == [t |-> "NaN"]

Num(n) == [t |-> "number", v |-> n]

\* the thresholds table of getPollutantStatus, in whole units
thresholds ==
  [pm25 |-> [good |-> 15, moderate |-> 35],
   pm10 |-> [good |-> 45, moderate |-> 75],
   no2 |-> [good |-> 40, moderate |-> 100],
   so2 |-> [good |-> 20, moderate |-> 80],
   co |-> [good |-> 4, moderate |-> 10]]

\* variant: strict comparisons
getPollutantStatus_Strict(type, value) ==
  IF type \notin DOMAIN thresholds THEN "unknown"
  ELSE IF value < thresholds[type].good * Resolution THEN "good"
  ELSE IF value < thresholds[type].moderate * Resolution THEN "moderate"
  ELSE "poor"

\* getPollutantStatus(type, value), value in steps of 1 / Resolution
getPollutantStatus(type, value) ==
  IF type \notin DOMAIN thresholds THEN "unknown"
  ELSE IF value <= thresholds[type].good * Resolution THEN "good"
  ELSE IF value <= thresholds[type].moderate * Resolution THEN "moderate"
  ELSE "poor"

\* aqi <= n in JS: false for NaN
AtMost(aqi, n) == aqi.t = "number" /\ aqi.v <= n

\* variant: strict comparisons
getAqiStatus_Strict(aqi) ==
  IF aqi.t \in {"null", "undefined"}
  THEN [status |-> "unknown", label |-> "Net dannykh"]
  ELSE IF aqi.t = "number" /\ aqi.v < 50
  THEN [status |-> "good", label |-> "Khoroshee"]
  ELSE IF aqi.t = "number" /\ aqi.v < 100
  THEN [status |-> "moderate", label |-> "Umerennoe"]
  ELSE IF aqi.t = "number" /\ aqi.v < 150
  THEN [status |-> "unhealthy-sensitive", label |-> "Vredno dlya chuvstvitelnykh"]
  ELSE IF aqi.t = "number" /\ aqi.v < 200
  THEN [status |-> "unhealthy", label |-> "Vredno"]
  ELSE IF aqi.t = "number" /\ aqi.v < 300
  THEN [status |-> "very-unhealthy", label |-> "Ochen vredno"]
  ELSE [status |-> "hazardous", label |-> "Opasno"]

\* getAqiStatus(aqi)
getAqiStatus(aqi) ==
  IF aqi.t \in {"null", "undefined"}
  THEN [status |-> "unknown", label |-> "Net dannykh"]
  ELSE IF AtMost(aqi, 50) THEN [status |-> "good", label |-> "Khoroshee"]
  ELSE IF AtMost(aqi, 100) THEN [status |-> "moderate", label |-> "Umerennoe"]
  ELSE IF AtMost(aqi, 150)
  THEN [status |-> "unhealthy-sensitive", label |-> "Vredno dlya chuvstvitelnykh"]
  ELSE IF AtMost(aqi, 200) THEN [status |-> "unhealthy", label |-> "Vredno"]
  ELSE IF AtMost(aqi, 300)
  THEN [status |-> "very-unhealthy", label |-> "Ochen vredno"]
  ELSE [status |-> "hazardous", label |-> "Opasno"]

\* inputs of the classifiers: the kinds of the table and one outside it;
\* readings at and just above every threshold; indices at and just above
\* every breakpoint, and the non-numbers
PollutantTypes == {"pm25", "pm10", "no2", "so2", "co", "o3"}

Readings ==
  {0} \cup { th * Resolution + d :
             th \in {4, 10, 15, 20, 35, 40, 45, 75, 80, 100}, d \in {0, 1} }

AqiInputs ==
  {JsNull, JsUndefined, JsNaN} \cup
  { Num(n) : n \in {0, 50, 51, 100, 101, 150, 151, 200, 201, 300, 301, 500} }

NoCall == [status |-> "none"]

ClassIdle == pollutantCall = NoCall /\ aqiCall = NoCall

(***************************************************************************)
(* The air-quality service: getStationDetails and getStationsInBounds.     *)
(* Each function awaits fetch and then response.json(); an answer of the   *)
(* upstream is the record of how the two settle: the fetch is rejected,    *)
(* the status is not a success, the body is not JSON, its status field is  *)
(* not 'ok', its data field is missing, or it is well formed.              *)
(***************************************************************************)
Pending == [kind |-> "pending"]

NotStarted == [kind |-> "none"]

FailureKinds == {"rejected", "status-500", "invalid-json", "no-data"}

NotFoundKinds == {"status-404", "error-status"}

\* error.message of the exception the function catches
ErrorMessage(kind) ==
  CASE kind = "rejected" -> "fetch failed"
    [] kind \in {"status-404", "status-500"} -> "API error"
    [] kind = "invalid-json" -> "SyntaxError"
    [] kind = "error-status" -> "API returned error status"
    [] kind = "no-data" -> "TypeError"

\* the series of a station feed, per pollutant: the means, oldest first
PollutantKinds == {"pm25", "pm10", "no2", "so2", "co"}

NoSeries == [k \in PollutantKinds |-> <<>>]

Feeds ==
  { NoSeries,
    [NoSeries EXCEPT !.pm25 = <<15 * Resolution>>],
    [NoSeries EXCEPT !.pm25 = <<10 * Resolution, 35 * Resolution + 1>>,
                     !.co = <<4 * Resolution + 1>>] }

\* extractLatestPollutants(data)
extractLatestPollutants(data) ==
  [k \in {kk \in PollutantKinds : Len(data[kk]) > 0} |->
     LET latest == data[k][Len(data[k])]
     IN  [value |-> latest,
          unit |-> IF k = "co" THEN "mg/m3" ELSE "ug/m3",
          status |-> getPollutantStatus(k, latest)]]

NoStation == [id |-> "null"]

\* the value getStationDetails(stationId) returns when the upstream answers
\* with answer
getStationDetails(stationId, answer) ==
  IF answer.kind = "ok"
  THEN [success |-> TRUE, error |-> "absent",
        station |-> [id |-> stationId,
                     pollutants |-> extractLatestPollutants(answer.data)]]
  ELSE [success |-> FALSE, error |-> ErrorMessage(answer.kind),
        station |-> NoStation]

\* the station identifiers the upstream knows, and one it does not know
KnownStations == {"1", "2", "3"}

StationIds == KnownStations \cup {"9"}

\* the answers of the upstream to a detail request: a well-formed feed
\* only for a station it knows, a not-found answer only for one it does
\* not know, a failure for either
DetailAnswers(stationId) ==
  { [kind |-> k, data |-> NoSeries] :
      k \in FailureKinds \cup
            (IF stationId \in KnownStations THEN {} ELSE NotFoundKinds) }
  \cup (IF stationId \in KnownStations
        THEN { [kind |-> "ok", data |-> f] : f \in Feeds }
        ELSE {})

\* the status the route GET /station/:id answers with
RouteStatus(data) == IF ~data.success THEN 404 ELSE 200

(***************************************************************************)
(* getTenderById(id) on the tenders file.                                  *)
(***************************************************************************)
TenderIds == {"t1", "t2"}

LookupIds == TenderIds \cup {"t9"}

\* file is "readable" or "unreadable" (readFileSync or JSON.parse throws)
getTenderById(id, file) ==
  IF file = "unreadable"
  THEN [thrown |-> TRUE, success |-> FALSE, error |-> "exception", id |-> id]
  ELSE IF id \notin TenderIds
  THEN [thrown |-> FALSE, success |-> FALSE, error |-> "Tender ne nayden", id |-> id]
  ELSE [thrown |-> FALSE, success |-> TRUE, error |-> "absent", id |-> id]

NoLookup == [thrown |-> FALSE, success |-> FALSE, error |-> "none", id |-> "none"]

StationIdle ==
  /\ stPc = "idle"
  /\ stId = "none"
  /\ stNet = NotStarted
  /\ stResult = [success |-> FALSE, error |-> "none", station |-> NoStation]
  /\ stHttp = 0
  /\ lookup = NoLookup

(***************************************************************************)
(* getStationsInBounds and getAllAirQualityData.                           *)
(***************************************************************************)
\* station.aqi as the upstream sends it: the string '-', a decimal string,
\* or a string that is neither
Dash == [t |-> "dash"]

Digits(n) == [t |-> "digits", v |-> n]

Letters == [t |-> "letters"]

RawAqis == {Dash, Digits(50), Digits(151), Letters}

\* station.idx of the i-th station of an answer, and idx.replace('A', '')
IdxOf(i) == <<"A1", "A2", "A3", "A4">>[i]

StripA(idx) ==
  CASE idx = "A1" -> "1" [] idx = "A2" -> "2" [] idx = "A3" -> "3"
    [] idx = "A4" -> "4"

\* the station lists of a well-formed bounds answer
StationLists ==
  { [i \in DOMAIN raw |-> [idx |-> IdxOf(i), aqi |-> raw[i]]] :
      raw \in UNION { [1..n -> RawAqis] : n \in 0..MaxStations } }

BoundsAnswers ==
  { [kind |-> k, stations |-> <<>>] :
      k \in FailureKinds \cup {"error-status"} }
  \cup { [kind |-> "ok", stations |-> l] : l \in StationLists }

\* station.aqi === '-' ? null : parseInt(station.aqi, 10)
parseAqi(raw) ==
  IF raw.t = "dash" THEN JsNull
  ELSE IF raw.t = "digits" THEN Num(raw.v)
  ELSE JsNaN

\* variant: the catch block reports an empty success
getStationsInBounds_EmptySuccess(answer) ==
  IF answer.kind = "ok"
  THEN LET stations ==
             [i \in 1..Len(answer.stations) |->
                [id |-> StripA(answer.stations[i].idx),
                 idx |-> answer.stations[i].idx,
                 aqi |-> parseAqi(answer.stations[i].aqi),
                 hasData |-> answer.stations[i].aqi.t # "dash"]]
       IN  [success |-> TRUE, error |-> "absent", stations |-> stations,
            totalCount |-> Len(stations),
            withData |-> Len(SelectSeq(stations, LAMBDA st : st.hasData))]
  ELSE [success |-> TRUE, error |-> ErrorMessage(answer.kind),
        stations |-> <<>>, totalCount |-> 0, withData |-> 0]

\* the value getStationsInBounds(bounds) returns when the upstream answers
\* with answer
getStationsInBounds(answer) ==
  IF answer.kind = "ok"
  THEN LET stations ==
             [i \in 1..Len(answer.stations) |->
                [id |-> StripA(answer.stations[i].idx),
                 idx |-> answer.stations[i].idx,
                 aqi |-> parseAqi(answer.stations[i].aqi),
                 hasData |-> answer.stations[i].aqi.t # "dash"]]
       IN  [success |-> TRUE, error |-> "absent", stations |-> stations,
            totalCount |-> Len(stations),
            withData |-> Len(SelectSeq(stations, LAMBDA st : st.hasData))]
  ELSE [success |-> FALSE, error |-> ErrorMessage(answer.kind),
        stations |-> <<>>]

\* stationsResult.stations.filter(s => s.hasData)
stationsWithData(stationsResult) ==
  SelectSeq(stationsResult.stations, LAMBDA st : st.hasData)

RECURSIVE SumAqi(_)
SumAqi(stations) ==
  IF stations = <<>> THEN 0 ELSE Head(stations).aqi.v + SumAqi(Tail(stations))

\* variant: Math.floor in place of Math.round
averageAqi_Truncated(validAqi) ==
  IF Len(validAqi) = 0 THEN JsNull
  ELSE IF \E i \in DOMAIN validAqi : validAqi[i].aqi.t = "NaN" THEN JsNaN
  ELSE Num(SumAqi(validAqi) \div Len(validAqi))

\* Math.round(sum / length) of the valid readings, null when there are
\* none; a sum with a NaN in it is NaN
averageAqi(validAqi) ==
  IF Len(validAqi) = 0 THEN JsNull
  ELSE IF \E i \in DOMAIN validAqi : validAqi[i].aqi.t = "NaN" THEN JsNaN
  ELSE Num(Round(SumAqi(validAqi), Len(validAqi)))

\* the value getAllAirQualityData returns after a successful bounds query,
\* details[i] being what getStationDetails returned for the i-th station
\* with data
AllResult(stationsResult, details) ==
  LET withData == stationsWithData(stationsResult)
      detailedStations ==
        [i \in 1..Len(withData) |->
           [id |-> withData[i].id, idx |-> withData[i].idx,
            aqi |-> withData[i].aqi, hasData |-> withData[i].hasData,
            aqiStatus |-> getAqiStatus(withData[i].aqi),
            details |-> IF details[i].success THEN details[i].station
                        ELSE NoStation]]
      withoutData ==
        SelectSeq(stationsResult.stations, LAMBDA st : ~st.hasData)
      rest ==
        [i \in 1..Len(withoutData) |->
           [id |-> withoutData[i].id, idx |-> withoutData[i].idx,
            aqi |-> withoutData[i].aqi, hasData |-> withoutData[i].hasData,
            aqiStatus |-> getAqiStatus(JsNull),
            details |-> NoStation]]
      allStations == detailedStations \o rest
      validAqi == SelectSeq(detailedStations, LAMBDA st : st.aqi.t # "null")
  IN  [success |-> TRUE,
       error |-> "absent",
       averageAqi |-> averageAqi(validAqi),
       averageAqiStatus |-> getAqiStatus(averageAqi(validAqi)),
       stations |-> allStations,
       summary |-> [total |-> Len(allStations),
                    withData |-> Len(detailedStations),
                    withoutData |-> Len(allStations) - Len(detailedStations)]]

NoAllResult == [success |-> FALSE, error |-> "none", stations |-> <<>>]

AllIdle ==
  /\ allPc = "idle"
  /\ boundsNet = NotStarted
  /\ detNet = <<>>
  /\ allResult = NoAllResult

AirIdle == ClassIdle /\ StationIdle /\ AllIdle

(***************************************************************************)
(* The page, frontend/js/main.js.  An overlay element is known by the      *)
(* number of the call of loadAirQualityData that created it; overlays      *)
(* lists the elements with id loading-overlay attached to the document, in *)
(* document order; timers lists the pending setTimeout(() =>               *)
(* overlay.remove(), 300) callbacks in the order they were set, which is   *)
(* the order they fire in (they all have the same delay).  null is 0 where *)
(* a timer id is held.                                                     *)
(***************************************************************************)
\* the tabs of the page; only air and ai-procure load data when clicked
Tabs == {"air", "ai-procure", "other"}

\* hideLoadingOverlay(): getElementById gives the first element with the id
\* in document order; its removal is scheduled; the timers after the call
hideLoadingOverlay(d, ts) == IF d # <<>> THEN Append(ts, Head(d)) ELSE ts

\* showLoadingOverlay(): hide the old overlay, then append a new element
showLoadingOverlay(d, ts, el) ==
  [overlays |-> Append(d, el), timers |-> hideLoadingOverlay(d, ts)]

\* overlay.remove() for the element el
remove(d, el) == SelectSeq(d, LAMBDA e : e # el)

\* variant: the previous interval is not cleared
startAutoUpdate_NoClear(current, active, id) ==
  [updateInterval |-> id, intervals |-> active \cup {id}]

\* startAutoUpdate(): clearInterval of the current timer if there is one,
\* then setInterval, which returns the new timer's id
startAutoUpdate(current, active, id) ==
  [updateInterval |-> id,
   intervals |-> (IF current # 0 THEN active \ {current} ELSE active) \cup {id}]

\* what the last interval callback saw and did
NoRefresh == [tab |-> "none", reloaded |-> FALSE]

\* nothing loaded yet: no overlay, no call in flight, no interval timer
LoadFresh ==
  /\ overlays = <<>>
  /\ timers = <<>>
  /\ awaitingFetch = 0
  /\ awaitingJson = 0
  /\ started = 0
  /\ airQualityData = FALSE
  /\ updateInterval = 0
  /\ intervals = {}
  /\ refresh = NoRefresh

\* a call of a button's handler: where it is suspended, how its fetch and
\* its response.json() have settled, and whether it holds a button
NoCallOf == [pc |-> "idle", net |-> "none", body |-> "none", button |-> FALSE]

\* both buttons enabled, no handler running
ButtonFresh ==
  /\ airBtn = [disabled |-> FALSE]
  /\ airCall = NoCallOf
  /\ tenderBtn = [disabled |-> FALSE]
  /\ tenderCalls = [k \in {"table", "modal"} |-> NoCallOf]

\* the page as it is after DOMContentLoaded, on a tab that loads nothing
PageIdle ==
  /\ activeTab = "other"
  /\ tendersData = {}
  /\ LoadFresh
  /\ ButtonFresh

\* process.env.OPENROUTER_API_KEY: unset, set to the empty string, or a key
ApiKeys == {"undefined", "", "sk-or-key"}

(***************************************************************************)
(* State.                                                                  *)
(***************************************************************************)
NoEval == [now |-> -1]

NoResult == [source |-> "none"]

\* every call of analyzeTenderRisks is recorded: last is the latest call,
\* prev the one before it
Evaluation(now) == [now |-> now, out |-> analyzeTenderRisks(tender, now)]

Init ==
  /\ tender \in Tenders
  /\ apiKey \in ApiKeys
  /\ clock = 0
  /\ last = NoEval
  /\ prev = NoEval
  /\ pc = "idle"
  /\ net = "none"
  /\ body = "none"
  /\ result = NoResult
  /\ calls = 0
  /\ AirIdle
  /\ PageIdle

(***************************************************************************)
(* aiAnalyzeTender: the outcomes of its fetch and of response.json().      *)
(***************************************************************************)
\* how the promise returned by fetch settles: rejected (network error), or
\* resolved with a response of the given status
FetchOutcomes == {"rejected", "status-200", "status-429", "status-500"}

\* response.ok
ok(outcome) == outcome = "status-200"

\* bodies of a response: not JSON; the JSON value null; an object without
\* choices; choices = []; choices[0] without message; message.content null;
\* message.content ""; message.content a text
Bodies ==
  {"invalid-json", "null", "no-choices", "empty-choices", "no-message",
   "null-content", "empty-content", "text"}

\* response.json() rejects
JsonRejects(b) == b = "invalid-json"

\* data.choices[0] throws a TypeError: data is null or data.choices undefined
ChoicesThrows(b) == b \in {"null", "no-choices"}

\* data.choices[0]?.message?.content
content(b) ==
  CASE b = "text" -> "ai-text"
    [] b = "empty-content" -> ""
    [] b = "null-content" -> "null"
    [] OTHER -> "undefined"

\* variant: only a missing value counts, the empty string does not
Falsy_OnlyMissing(v) == v \in {"null", "undefined"}

\* JS falsiness of the values the key and content(b) can take
Falsy(v) == v \in {"", "null", "undefined"}

\* data.choices[0]?.message?.content || 'Не удалось получить анализ';
\* a text is the sequence of its pieces, as in generateSummary
aiResponse(b) ==
  IF Falsy(content(b)) THEN << <<"Ne udalos poluchit analiz">> >>
  ELSE << <<content(b)>> >>

\* the return value of the branch taken without a key
NoKeyResult(localAnalysis) ==
  [success |-> TRUE, analysis |-> localAnalysis.summary,
   details |-> localAnalysis, source |-> "local", error |-> "absent"]

\* the return value at the end of the try block
AiResult(b, localAnalysis) ==
  [success |-> TRUE, analysis |-> aiResponse(b),
   details |-> localAnalysis, source |-> "ai", error |-> "absent"]

\* variant: the catch block returns the placeholder text
FallbackResult_Placeholder(message, localAnalysis) ==
  [success |-> TRUE, analysis |-> << <<"Ne udalos poluchit analiz">> >>,
   details |-> localAnalysis, source |-> "local", error |-> message]

\* variant: the catch block reports the failure to the caller
FallbackResult_Failure(message, localAnalysis) ==
  [success |-> FALSE, analysis |-> localAnalysis.summary,
   details |-> localAnalysis, source |-> "local", error |-> message]

\* the return value of the catch block
FallbackResult(message, localAnalysis) ==
  [success |-> TRUE, analysis |-> localAnalysis.summary,
   details |-> localAnalysis, source |-> "local", error |-> message]

\* the wall clock advances
Tick ==
  /\ clock < MaxClock
  /\ clock' = clock + 1
  /\ UNCHANGED <<tender, apiKey, last, prev, pc, net, body, result, calls>>
  /\ UNCHANGED <<airVars, pageVars>>

\* a caller runs analyzeTenderRisks(tender)
Analyze ==
  /\ last' = Evaluation(clock)
  /\ prev' = last
  /\ UNCHANGED <<tender, apiKey, clock, pc, net, body, result, calls>>
  /\ UNCHANGED <<airVars, pageVars>>

\* aiAnalyzeTender(tender) is called and runs to its first await or return;
\* calls counts the fetches issued by the latest invocation
AiStart ==
  /\ pc = "idle"
  /\ IF Falsy(apiKey)
     THEN /\ last' = Evaluation(clock)
          /\ prev' = last
          /\ result' = NoKeyResult(last'.out)
          /\ pc' = "done"
          /\ calls' = 0
          /\ UNCHANGED net
     ELSE /\ net' = "pending"
          /\ calls' = 1
          /\ pc' = "awaitFetch"
          /\ UNCHANGED <<last, prev, result>>
  /\ UNCHANGED <<tender, apiKey, clock, body>>
  /\ UNCHANGED <<airVars, pageVars>>

\* the provider (or the network) settles the pending fetch
FetchSettles ==
  /\ net = "pending"
  /\ \E outcome \in FetchOutcomes : net' = outcome
  /\ UNCHANGED <<tender, apiKey, clock, last, prev, pc, body, result, calls>>
  /\ UNCHANGED <<airVars, pageVars>>

\* variant: a failed call is issued once more before the fallback
AfterFetch_Retry ==
  /\ pc = "awaitFetch"
  /\ net \in FetchOutcomes
  /\ IF ok(net)
     THEN /\ pc' = "awaitJson"
          /\ body' = "pending"
          /\ UNCHANGED <<last, prev, result, net, calls>>
     ELSE IF calls < 2
     THEN /\ net' = "pending"
          /\ calls' = calls + 1
          /\ UNCHANGED <<last, prev, result, pc, body>>
     ELSE /\ last' = Evaluation(clock)
          /\ prev' = last
          /\ result' = FallbackResult(IF net = "rejected" THEN "fetch failed"
                                      ELSE "OpenRouter API error", last'.out)
          /\ pc' = "done"
          /\ UNCHANGED <<body, net, calls>>
  /\ UNCHANGED <<tender, apiKey, clock>>
  /\ UNCHANGED <<airVars, pageVars>>

\* the function resumes after await fetch(...)
AfterFetch ==
  /\ pc = "awaitFetch"
  /\ net \in FetchOutcomes
  /\ IF ok(net)
     THEN /\ pc' = "awaitJson"
          /\ body' = "pending"
          /\ UNCHANGED <<last, prev, result>>
     ELSE /\ last' = Evaluation(clock)
          /\ prev' = last
          /\ result' = FallbackResult(IF net = "rejected" THEN "fetch failed"
                                      ELSE "OpenRouter API error", last'.out)
          /\ pc' = "done"
          /\ UNCHANGED body
  /\ UNCHANGED <<tender, apiKey, clock, net, calls>>
  /\ UNCHANGED <<airVars, pageVars>>

\* the body of the response has been read
BodySettles ==
  /\ body = "pending"
  /\ \E b \in Bodies : body' = b
  /\ UNCHANGED <<tender, apiKey, clock, last, prev, pc, net, result, calls>>
  /\ UNCHANGED <<airVars, pageVars>>

\* the function resumes after await response.json()
AfterJson ==
  /\ pc = "awaitJson"
  /\ body \in Bodies
  /\ last' = Evaluation(clock)
  /\ prev' = last
  /\ result' = IF JsonRejects(body) THEN FallbackResult("SyntaxError", last'.out)
               ELSE IF ChoicesThrows(body) THEN FallbackResult("TypeError", last'.out)
               ELSE AiResult(body, last'.out)
  /\ pc' = "done"
  /\ UNCHANGED <<tender, apiKey, clock, net, body, calls>>
  /\ UNCHANGED <<airVars, pageVars>>

\* the caller takes the returned value
Return ==
  /\ pc = "done"
  /\ pc' = "idle"
  /\ net' = "none"
  /\ body' = "none"
  /\ result' = NoResult
  /\ UNCHANGED <<tender, apiKey, clock, last, prev, calls>>
  /\ UNCHANGED <<airVars, pageVars>>

Next ==
  \/ Tick
  \/ Analyze
  \/ AiStart
  \/ FetchSettles
  \/ AfterFetch
  \/ BodySettles
  \/ AfterJson
  \/ Return

Spec == Init /\ [][Next]_vars

\* the runtime resumes an async function once the promise it awaits has
\* settled; nothing obliges the provider to answer, and the function sets
\* no timer of its own
\* the same machine started on the tenders of the construction scenario
\* (one per deadline); whether the call returns does not depend on the tender
LiveInit ==
  /\ Init
  /\ tender.category = "construction"
  /\ tender.amount = 2500 * Million
  /\ tender.executionStart = Date(0, 0, 15)

LiveSpec ==
  /\ LiveInit
  /\ [][Next]_vars
  /\ WF_vars(AfterFetch) /\ WF_vars(AfterJson)

(***************************************************************************)
(* The rule engine on its own: analyzeTenderRisks called directly, on the  *)
(* tenders above and on tenders at the edges of the timeline block: an     *)
(* amount just under 0.5 billion, and execution windows that end a tick    *)
(* after a whole number of days.                                           *)
(***************************************************************************)
EngineAmounts == Amounts \cup {499}

EngineWindows ==
  Windows \cup
  { <<Date(0, 5, 1), Date(0, 5, 6) + 1>>,    \* 1 Jun - 6 Jun, 5 days and a tick
    <<Date(0, 5, 1), Date(0, 7, 2) + 1>> }   \* 1 Jun - 2 Aug, 62 days and a tick

EngineTenders ==
  { [title |-> "tender", category |-> c, amount |-> a,
     executionStart |-> w[1], executionEnd |-> w[2], deadline |-> d] :
    c \in Categories, a \in EngineAmounts, w \in EngineWindows, d \in Deadlines }

EngineInit ==
  /\ tender \in EngineTenders
  /\ apiKey = "undefined"
  /\ clock = 0
  /\ last = NoEval
  /\ prev = NoEval
  /\ pc = "idle"
  /\ net = "none"
  /\ body = "none"
  /\ result = NoResult
  /\ calls = 0
  /\ AirIdle
  /\ PageIdle

EngineNext ==
  \/ Tick
  \/ Analyze

EngineSpec == EngineInit /\ [][EngineNext]_vars

(***************************************************************************)
(* The classifiers, the station route and getAllAirQualityData run on      *)
(* their own; the tender engine is idle meanwhile.                         *)
(***************************************************************************)
TenderIdle ==
  /\ tender = [title |-> "tender", category |-> "construction",
               amount |-> 2500 * Million, executionStart |-> Date(0, 0, 15),
               executionEnd |-> Date(0, 2, 1), deadline |-> 5 * DayTicks]
  /\ apiKey = ""
  /\ clock = 0
  /\ last = NoEval
  /\ prev = NoEval
  /\ pc = "idle"
  /\ net = "none"
  /\ body = "none"
  /\ result = NoResult
  /\ calls = 0

IdleInit == TenderIdle /\ AirIdle /\ PageIdle

\* getPollutantStatus is called on a reading
ClassifyPollutant ==
  /\ \E type \in PollutantTypes, value \in Readings :
       pollutantCall' = [type |-> type, value |-> value,
                         status |-> getPollutantStatus(type, value)]
  /\ UNCHANGED <<pageVars, tenderVars, aqiCall, stationVars, allVars>>

\* getAqiStatus is called on an index
ClassifyAqi ==
  /\ \E aqi \in AqiInputs :
       aqiCall' = [aqi |-> aqi, status |-> getAqiStatus(aqi).status,
                   label |-> getAqiStatus(aqi).label]
  /\ UNCHANGED <<pageVars, tenderVars, pollutantCall, stationVars, allVars>>

ClassifierNext == ClassifyPollutant \/ ClassifyAqi

ClassifierSpec == IdleInit /\ [][ClassifierNext]_vars

\* a request GET /station/:id arrives; getStationDetails issues its fetch
StationRequest ==
  /\ stPc = "idle"
  /\ \E id \in StationIds : stId' = id
  /\ stNet' = Pending
  /\ stPc' = "awaitDetails"
  /\ UNCHANGED <<stResult, stHttp, lookup>>
  /\ UNCHANGED <<pageVars, tenderVars, classVars, allVars>>

\* the upstream answers the detail request
StationSettles ==
  /\ stNet.kind = "pending"
  /\ \E answer \in DetailAnswers(stId) : stNet' = answer
  /\ UNCHANGED <<stPc, stId, stResult, stHttp, lookup>>
  /\ UNCHANGED <<pageVars, tenderVars, classVars, allVars>>

\* getStationDetails returns and the route sends its response
StationRespond ==
  /\ stPc = "awaitDetails"
  /\ stNet.kind \notin {"none", "pending"}
  /\ stResult' = getStationDetails(stId, stNet)
  /\ stHttp' = RouteStatus(stResult')
  /\ stPc' = "responded"
  /\ UNCHANGED <<stId, stNet, lookup>>
  /\ UNCHANGED <<pageVars, tenderVars, classVars, allVars>>

\* the request is over; the route is ready for the next one
StationDone ==
  /\ stPc = "responded"
  /\ stPc' = "idle"
  /\ stNet' = NotStarted
  /\ UNCHANGED <<stId, stResult, stHttp, lookup>>
  /\ UNCHANGED <<pageVars, tenderVars, classVars, allVars>>

\* getTenderById(id) is called
LookupTender ==
  /\ \E id \in LookupIds, file \in {"readable", "unreadable"} :
       lookup' = getTenderById(id, file)
  /\ UNCHANGED <<stPc, stId, stNet, stResult, stHttp>>
  /\ UNCHANGED <<pageVars, tenderVars, classVars, allVars>>

StationNext ==
  \/ StationRequest
  \/ StationSettles
  \/ StationRespond
  \/ StationDone
  \/ LookupTender

StationSpec == IdleInit /\ [][StationNext]_vars

\* getAllAirQualityData(bounds) is called; getStationsInBounds issues its
\* fetch
AllStart ==
  /\ allPc = "idle"
  /\ allPc' = "awaitBounds"
  /\ boundsNet' = Pending
  /\ detNet' = <<>>
  /\ allResult' = NoAllResult
  /\ UNCHANGED <<pageVars, tenderVars, classVars, stationVars>>

\* the upstream answers the bounds request
BoundsSettles ==
  /\ boundsNet.kind = "pending"
  /\ \E answer \in BoundsAnswers : boundsNet' = answer
  /\ UNCHANGED <<allPc, detNet, allResult>>
  /\ UNCHANGED <<pageVars, tenderVars, classVars, stationVars>>

\* getStationsInBounds returns: the function returns its failure, or
\* starts one getStationDetails per station with data (Promise.all), or,
\* with no such station, goes on to its result
AfterBounds ==
  /\ allPc = "awaitBounds"
  /\ boundsNet.kind \notin {"none", "pending"}
  /\ LET stationsResult == getStationsInBounds(boundsNet)
         n == Len(stationsWithData(stationsResult))
     IN  IF ~stationsResult.success
         THEN /\ allResult' = stationsResult
              /\ allPc' = "done"
              /\ UNCHANGED detNet
         ELSE IF n = 0
         THEN /\ allResult' = AllResult(stationsResult, <<>>)
              /\ allPc' = "done"
              /\ UNCHANGED detNet
         ELSE /\ detNet' = [i \in 1..n |-> Pending]
              /\ allPc' = "awaitDetails"
              /\ UNCHANGED allResult
  /\ UNCHANGED boundsNet
  /\ UNCHANGED <<pageVars, tenderVars, classVars, stationVars>>

\* the upstream answers one of the pending detail requests
DetailSettles ==
  /\ allPc = "awaitDetails"
  /\ \E i \in DOMAIN detNet :
       /\ detNet[i].kind = "pending"
       /\ \E answer \in DetailAnswers(
                 stationsWithData(getStationsInBounds(boundsNet))[i].id) :
            detNet' = [detNet EXCEPT ![i] = answer]
  /\ UNCHANGED <<allPc, boundsNet, allResult>>
  /\ UNCHANGED <<pageVars, tenderVars, classVars, stationVars>>

\* every getStationDetails has returned: Promise.all resolves and the
\* function builds its result
AfterDetails ==
  /\ allPc = "awaitDetails"
  /\ \A i \in DOMAIN detNet : detNet[i].kind # "pending"
  /\ LET stationsResult == getStationsInBounds(boundsNet)
         withData == stationsWithData(stationsResult)
     IN  allResult' =
           AllResult(stationsResult,
                     [i \in DOMAIN detNet |->
                        getStationDetails(withData[i].id, detNet[i])])
  /\ allPc' = "done"
  /\ UNCHANGED <<boundsNet, detNet>>
  /\ UNCHANGED <<pageVars, tenderVars, classVars, stationVars>>

\* the caller takes the returned value
AllReturn ==
  /\ allPc = "done"
  /\ allPc' = "idle"
  /\ boundsNet' = NotStarted
  /\ detNet' = <<>>
  /\ UNCHANGED allResult
  /\ UNCHANGED <<pageVars, tenderVars, classVars, stationVars>>

AllNext ==
  \/ AllStart
  \/ BoundsSettles
  \/ AfterBounds
  \/ DetailSettles
  \/ AfterDetails
  \/ AllReturn

AllSpec == IdleInit /\ [][AllNext]_vars

(***************************************************************************)
(* The page: tab clicks, loadAirQualityData, the overlay's removal timers  *)
(* and the auto-update interval.  The calls of loadAirQualityData in       *)
(* flight are counted by the await they are suspended at.                  *)
(***************************************************************************)
\* how response.json() of /api/air-quality turns out: not JSON; a result
\* with success false; a result with success true; a result with success
\* true that renderAirQualityData throws on
LoadBodies == {"invalid-json", "failure", "success", "unrenderable"}

\* loadAirQualityData() is called and runs to its await fetch(...)
StartLoad ==
  LET shown == showLoadingOverlay(overlays, timers, started + 1)
  IN  /\ started < MaxLoads
      /\ overlays' = shown.overlays
      /\ timers' = shown.timers
      /\ started' = started + 1
      /\ awaitingFetch' = awaitingFetch + 1

\* the click handler of a tab
ClickTab ==
  /\ \E tab \in Tabs :
       /\ activeTab' = tab
       /\ IF tab = "air" THEN StartLoad
          ELSE UNCHANGED <<overlays, timers, started, awaitingFetch>>
  /\ UNCHANGED <<awaitingJson, airQualityData, updateInterval, intervals, refresh>>
  /\ UNCHANGED <<tenderVars, airVars, buttonVars>>

\* the callback of an active interval timer
IntervalTick ==
  /\ intervals # {}
  /\ IF activeTab = "air"
     THEN /\ StartLoad
          /\ refresh' = [tab |-> activeTab, reloaded |-> TRUE]
     ELSE /\ UNCHANGED <<overlays, timers, started, awaitingFetch>>
          /\ refresh' = [tab |-> activeTab, reloaded |-> FALSE]
  /\ UNCHANGED <<activeTab, awaitingJson, airQualityData, updateInterval, intervals>>
  /\ UNCHANGED <<tenderVars, airVars, buttonVars>>

\* a call resumes after await fetch(...): the fetch was rejected (catch
\* block) or gave a response
LoadAfterFetch ==
  /\ awaitingFetch > 0
  /\ awaitingFetch' = awaitingFetch - 1
  /\ \E outcome \in {"rejected", "resolved"} :
       IF outcome = "rejected"
       THEN /\ timers' = hideLoadingOverlay(overlays, timers)
            /\ UNCHANGED awaitingJson
       ELSE /\ awaitingJson' = awaitingJson + 1
            /\ UNCHANGED timers
  /\ UNCHANGED <<activeTab, overlays, started, airQualityData, updateInterval,
                 intervals, refresh>>
  /\ UNCHANGED <<tenderVars, airVars, buttonVars>>

\* a call resumes after await response.json() and runs to its end
LoadAfterJson ==
  /\ awaitingJson > 0
  /\ awaitingJson' = awaitingJson - 1
  /\ \E b \in LoadBodies :
       LET once == hideLoadingOverlay(overlays, timers)
           timer == startAutoUpdate(updateInterval, intervals, updateInterval + 1)
       IN  /\ timers' = IF b = "unrenderable"
                        THEN hideLoadingOverlay(overlays, once) ELSE once
           /\ airQualityData' = (airQualityData \/ b \in {"success", "unrenderable"})
           /\ IF b = "success"
              THEN /\ updateInterval' = timer.updateInterval
                   /\ intervals' = timer.intervals
              ELSE UNCHANGED <<updateInterval, intervals>>
  /\ UNCHANGED <<activeTab, overlays, started, awaitingFetch, refresh>>
  /\ UNCHANGED <<tenderVars, airVars, buttonVars>>

\* the oldest pending removal timer fires: overlay.remove()
TimerFires ==
  /\ timers # <<>>
  /\ overlays' = remove(overlays, Head(timers))
  /\ timers' = Tail(timers)
  /\ UNCHANGED <<activeTab, awaitingFetch, awaitingJson, started, airQualityData,
                 updateInterval, intervals, refresh>>
  /\ UNCHANGED <<tenderVars, airVars, buttonVars>>

LoadNext ==
  \/ ClickTab
  \/ IntervalTick
  \/ LoadAfterFetch
  \/ LoadAfterJson
  \/ TimerFires

\* the markup decides which tab is active when the page opens
LoadInit ==
  /\ TenderIdle
  /\ AirIdle
  /\ activeTab \in Tabs
  /\ tendersData = {}
  /\ LoadFresh
  /\ ButtonFresh

LoadSpec == LoadInit /\ [][LoadNext]_vars

(***************************************************************************)
(* The page: the analyze buttons.  airBtn is the button ai-analyze-air of  *)
(* handleAIAnalyze; tenderBtn is the .ai-analyze-btn of a tender's row,    *)
(* which analyzeTenderWithAI receives from the row's click handler (table) *)
(* or from the details modal (modal), where it may be null.  A disabled    *)
(* button fires no click event.                                            *)
(***************************************************************************)
\* how response.json() turns out: not JSON; success false; success true
ButtonBodies == {"invalid-json", "failure", "success"}

\* the page when a button is first clicked: the air data may have been
\* loaded before or not
ButtonInit ==
  /\ TenderIdle
  /\ AirIdle
  /\ ButtonFresh
  /\ tendersData \in {{}, {"t1"}}
  /\ airQualityData \in BOOLEAN
  /\ activeTab = (IF tendersData # {} THEN "ai-procure"
                  ELSE IF airQualityData THEN "air" ELSE "other")
  \* after one successful loadAirQualityData, or before any
  /\ started = (IF airQualityData THEN 1 ELSE 0)
  /\ updateInterval = (IF airQualityData THEN 1 ELSE 0)
  /\ intervals = (IF airQualityData THEN {1} ELSE {})
  /\ overlays = <<>>
  /\ timers = <<>>
  /\ awaitingFetch = 0
  /\ awaitingJson = 0
  /\ refresh = NoRefresh

\* the call has ended and the next one may start
Ended(call) == call.pc \in {"idle", "done"}

\* handleAIAnalyze() runs to its await fetch(...), or returns at once when
\* no air data is loaded
ClickAirAnalyze ==
  /\ ~airBtn.disabled
  /\ Ended(airCall)
  /\ IF ~airQualityData
     THEN UNCHANGED <<airBtn, airCall>>
     ELSE /\ airBtn' = [disabled |-> TRUE]
          /\ airCall' = [pc |-> "awaitFetch", net |-> "pending",
                         body |-> "none", button |-> TRUE]
  /\ UNCHANGED <<tenderBtn, tendersData, tenderCalls>>
  /\ UNCHANGED <<tenderVars, airVars, loadVars>>

\* the fetch of /api/ai/analyze settles
AirFetchSettles ==
  /\ airCall.net = "pending"
  /\ \E outcome \in {"rejected", "resolved"} :
       airCall' = [airCall EXCEPT !.net = outcome]
  /\ UNCHANGED <<airBtn, tenderBtn, tendersData, tenderCalls>>
  /\ UNCHANGED <<tenderVars, airVars, loadVars>>

\* variant: the button is restored at the end of the try block only
AirAfterFetch_NoFinally ==
  /\ airCall.pc = "awaitFetch"
  /\ airCall.net \in {"rejected", "resolved"}
  /\ IF airCall.net = "rejected"
     THEN /\ airCall' = [airCall EXCEPT !.pc = "done"]
          /\ UNCHANGED airBtn
     ELSE /\ airCall' = [airCall EXCEPT !.pc = "awaitJson", !.body = "pending"]
          /\ UNCHANGED airBtn
  /\ UNCHANGED <<tenderBtn, tendersData, tenderCalls>>
  /\ UNCHANGED <<tenderVars, airVars, loadVars>>

\* handleAIAnalyze resumes after await fetch(...): catch and finally when
\* the fetch was rejected
AirAfterFetch ==
  /\ airCall.pc = "awaitFetch"
  /\ airCall.net \in {"rejected", "resolved"}
  /\ IF airCall.net = "rejected"
     THEN /\ airCall' = [airCall EXCEPT !.pc = "done"]
          /\ airBtn' = [disabled |-> FALSE]
     ELSE /\ airCall' = [airCall EXCEPT !.pc = "awaitJson", !.body = "pending"]
          /\ UNCHANGED airBtn
  /\ UNCHANGED <<tenderBtn, tendersData, tenderCalls>>
  /\ UNCHANGED <<tenderVars, airVars, loadVars>>

\* the body of the response has been read
AirBodySettles ==
  /\ airCall.body = "pending"
  /\ \E b \in ButtonBodies : airCall' = [airCall EXCEPT !.body = b]
  /\ UNCHANGED <<airBtn, tenderBtn, tendersData, tenderCalls>>
  /\ UNCHANGED <<tenderVars, airVars, loadVars>>

\* handleAIAnalyze resumes after await response.json(): the try block's
\* branches or the catch block, then finally
AirAfterJson ==
  /\ airCall.pc = "awaitJson"
  /\ airCall.body \in ButtonBodies
  /\ airCall' = [airCall EXCEPT !.pc = "done"]
  /\ airBtn' = [disabled |-> FALSE]
  /\ UNCHANGED <<tenderBtn, tendersData, tenderCalls>>
  /\ UNCHANGED <<tenderVars, airVars, loadVars>>

\* analyzeTenderWithAI(tenderId, buttonElement) runs to its await
\* fetch(...), or returns at once when tendersData has no such tender
ClickTenderAnalyze(k) ==
  /\ k = "table" => ~tenderBtn.disabled
  /\ Ended(tenderCalls[k])
  /\ \E buttonElement \in (IF k = "table" THEN {TRUE} ELSE BOOLEAN) :
       IF "t1" \notin tendersData
       THEN UNCHANGED <<tenderBtn, tenderCalls>>
       ELSE /\ tenderBtn' = IF buttonElement THEN [disabled |-> TRUE] ELSE tenderBtn
            /\ tenderCalls' = [tenderCalls EXCEPT ![k] =
                 [pc |-> "awaitFetch", net |-> "pending", body |-> "none",
                  button |-> buttonElement]]
  /\ UNCHANGED <<airBtn, airCall, tendersData>>
  /\ UNCHANGED <<tenderVars, airVars, loadVars>>

\* the fetch of /api/tenders/:id/ai-analyze settles
TenderFetchSettles(k) ==
  /\ tenderCalls[k].net = "pending"
  /\ \E outcome \in {"rejected", "resolved"} :
       tenderCalls' = [tenderCalls EXCEPT ![k].net = outcome]
  /\ UNCHANGED <<airBtn, airCall, tenderBtn, tendersData>>
  /\ UNCHANGED <<tenderVars, airVars, loadVars>>

\* the finally block of analyzeTenderWithAI
Restored(call) == IF call.button THEN [disabled |-> FALSE] ELSE tenderBtn

\* analyzeTenderWithAI resumes after await fetch(...)
TenderAfterFetch(k) ==
  /\ tenderCalls[k].pc = "awaitFetch"
  /\ tenderCalls[k].net \in {"rejected", "resolved"}
  /\ IF tenderCalls[k].net = "rejected"
     THEN /\ tenderCalls' = [tenderCalls EXCEPT ![k].pc = "done"]
          /\ tenderBtn' = Restored(tenderCalls[k])
     ELSE /\ tenderCalls' = [tenderCalls EXCEPT ![k].pc = "awaitJson",
                                                ![k].body = "pending"]
          /\ UNCHANGED tenderBtn
  /\ UNCHANGED <<airBtn, airCall, tendersData>>
  /\ UNCHANGED <<tenderVars, airVars, loadVars>>

\* the body of the response has been read
TenderBodySettles(k) ==
  /\ tenderCalls[k].body = "pending"
  /\ \E b \in ButtonBodies : tenderCalls' = [tenderCalls EXCEPT ![k].body = b]
  /\ UNCHANGED <<airBtn, airCall, tenderBtn, tendersData>>
  /\ UNCHANGED <<tenderVars, airVars, loadVars>>

\* analyzeTenderWithAI resumes after await response.json() and runs to its
\* end through finally
TenderAfterJson(k) ==
  /\ tenderCalls[k].pc = "awaitJson"
  /\ tenderCalls[k].body \in ButtonBodies
  /\ tenderCalls' = [tenderCalls EXCEPT ![k].pc = "done"]
  /\ tenderBtn' = Restored(tenderCalls[k])
  /\ UNCHANGED <<airBtn, airCall, tendersData>>
  /\ UNCHANGED <<tenderVars, airVars, loadVars>>

ButtonNext ==
  \/ ClickAirAnalyze
  \/ AirFetchSettles
  \/ AirAfterFetch
  \/ AirBodySettles
  \/ AirAfterJson
  \/ \E k \in {"table", "modal"} : ClickTenderAnalyze(k)
  \/ \E k \in {"table", "modal"} : TenderFetchSettles(k)
  \/ \E k \in {"table", "modal"} : TenderAfterFetch(k)
  \/ \E k \in {"table", "modal"} : TenderBodySettles(k)
  \/ \E k \in {"table", "modal"} : TenderAfterJson(k)

\* the runtime resumes an async function once the promise it awaits has
\* settled
ButtonSpec ==
  /\ ButtonInit
  /\ [][ButtonNext]_vars
  /\ WF_vars(AirAfterFetch) /\ WF_vars(AirAfterJson)
  /\ \A k \in {"table", "modal"} :
       WF_vars(TenderAfterFetch(k)) /\ WF_vars(TenderAfterJson(k))

(***************************************************************************)
(* Properties.                                                             *)
(***************************************************************************)
Evaluated == last # NoEval

TypesOf(findings) == {findings[i].type : i \in DOMAIN findings}

CountOf(findings, type) ==
  Cardinality({i \in DOMAIN findings : findings[i].type = type})

SeverityOf(findings, type) ==
  {findings[i].severity : i \in {j \in DOMAIN findings : findings[j].type = type}}

\* the number of days from the instant now to instant, rounded up
DaysUntil(instant, now) == Ceil(instant - now, DayTicks)

\* the increment the rule table gives for each finding
RiskPoints(type) ==
  CASE type = "seasonal" -> 35
    [] type = "financial" -> 25
    [] type = "timeline" -> 20
    [] type = "combined" -> 20
    [] OTHER -> 0

WarningPoints(type) ==
  CASE type = "financial" -> 15
    [] type = "deadline" -> 15
    [] OTHER -> 0

RECURSIVE PointsOf(_, _)
PointsOf(findings, asRisk) ==
  IF findings = <<>> THEN 0
  ELSE (IF asRisk THEN RiskPoints(Head(findings).type)
        ELSE WarningPoints(Head(findings).type))
       + PointsOf(Tail(findings), asRisk)

\* the score is the sum of the increments of the findings, limited to 100
ScoreIsSumOfFindings(out) ==
  out.riskScore = Min(PointsOf(out.risks, TRUE) + PointsOf(out.warnings, FALSE), 100)

AllFiveRules(out) ==
  /\ {"seasonal", "financial", "timeline", "combined"} \subseteq TypesOf(out.risks)
  /\ "deadline" \in TypesOf(out.warnings)

\* C1: every assessment has an integer riskScore in 0..100; an assessment in
\* which rules 1, 2 (the 2 billion branch), 3, 4 and 5 all triggered (raw
\* sum 115) has riskScore 100 and riskLevel high.
C1_ScoreClamped ==
  Evaluated =>
    /\ last.out.riskScore \in 0..100
    /\ AllFiveRules(last.out) =>
         (last.out.riskScore = 100 /\ last.out.riskLevel = "high")

C1_Witness == Evaluated /\ AllFiveRules(last.out) /\ last.out.riskScore = 100

\* the tender of the end-to-end construction scenario, evaluated 5 days
\* before its deadline
ConstructionScenario ==
  /\ Evaluated
  /\ tender.category = "construction"
  /\ tender.amount = 2500 * Million
  /\ tender.executionStart = Date(0, 0, 15)
  /\ tender.executionEnd = Date(0, 2, 1)
  /\ tender.deadline = last.now + 5 * DayTicks

ScenarioFindings ==
  /\ {"seasonal", "financial", "combined"} \subseteq TypesOf(last.out.risks)
  /\ "deadline" \in TypesOf(last.out.warnings)

\* C2 as stated: the construction scenario (2.5 billion, 15 Jan - 1 Mar,
\* deadline in 5 days) yields the seasonal, financial, deadline and combined
\* findings with riskScore 95 and riskLevel high.
C2_Original ==
  ConstructionScenario =>
    /\ ScenarioFindings
    /\ last.out.riskScore = 95
    /\ last.out.riskLevel = "high"

\* C2 amended: the construction scenario yields the seasonal, financial,
\* timeline and combined risks and the deadline warning; the raw sum
\* 35+25+15+20+20 = 115 is limited to riskScore 100, riskLevel high.
C2_Amended ==
  ConstructionScenario =>
    /\ ScenarioFindings
    /\ "timeline" \in TypesOf(last.out.risks)
    /\ Len(last.out.risks) = 4
    /\ Len(last.out.warnings) = 1
    /\ last.out.riskScore = 100
    /\ last.out.riskLevel = "high"

C2_Witness == ConstructionScenario /\ "timeline" \in TypesOf(last.out.risks)

\* C3: riskLevel is low iff riskScore < 30, medium iff 30 <= riskScore <= 59,
\* high iff riskScore >= 60, for every score the engine produces.
C3_LevelCutoffs ==
  Evaluated =>
    LET score == last.out.riskScore
        level == last.out.riskLevel
    IN  /\ level \in {"low", "medium", "high"}
        /\ level = "low" <=> score < 30
        /\ level = "medium" <=> (30 <= score /\ score <= 59)
        /\ level = "high" <=> score >= 60

C3_Witness ==
  /\ prev # NoEval
  /\ Evaluated
  /\ prev.out.riskScore = 15 /\ prev.out.riskLevel = "low"
  /\ last.out.riskScore = 30 /\ last.out.riskLevel = "medium"

\* the external call of the current invocation failed: the fetch was
\* rejected, the status is not a success, or the body carries no text
CallFailed ==
  \/ net \in FetchOutcomes \ {"status-200"}
  \/ (net = "status-200" /\ body \in Bodies \ {"text"})

\* C4 as stated: when the external call fails in any way, including a
\* completion without usable text, the result is the local summary with
\* source local; source ai is returned only for a genuine text completion.
C4_Original ==
  pc = "done" =>
    /\ CallFailed =>
         (result.source = "local" /\ result.analysis = result.details.summary)
    /\ result.source = "ai" => (net = "status-200" /\ body = "text")

\* C5: a result with source local carries as its text exactly the summary
\* of the rule engine's assessment of the tender, which is its details.
C5_LocalTextIsSummary ==
  (pc = "done" /\ result.source = "local") =>
    /\ result.analysis = result.details.summary
    /\ \E now \in 0..clock : result.details = analyzeTenderRisks(tender, now)

C5_Witness ==
  /\ pc = "done"
  /\ result.source = "local"
  /\ result.error # "absent"
  /\ Len(result.details.risks) > 0

\* C6: with no credential configured the invocation makes no external call
\* and returns the local summary, source local, as a successful result
\* without an error.
C6_NoKeyNoCall ==
  apiKey \in {"undefined", ""} =>
    /\ calls = 0
    /\ net = "none"
    /\ pc \in {"idle", "done"}
    /\ pc = "done" =>
         /\ result.success
         /\ result.source = "local"
         /\ result.error = "absent"
         /\ result.analysis = result.details.summary

C6_Witness == apiKey = "" /\ pc = "done" /\ result.source = "local"

\* C7 as stated: every invocation that has issued the external call
\* eventually returns a result, whether or not the provider responds.
C7_Original == (pc \in {"awaitFetch", "awaitJson"}) ~> (pc = "done")

TwoEvaluations == prev # NoEval /\ last # NoEval

WindowDays(now) ==
  LET d == DaysUntil(tender.deadline, now)
  IN  IF 0 < d /\ d < 10 THEN d ELSE 0

C10_FinancialExclusive ==
  Evaluated =>
    LET risksN == CountOf(last.out.risks, "financial")
        warningsN == CountOf(last.out.warnings, "financial")
        controlN == CountOf(last.out.recommendations, "control")
        tier == IF tender.amount >= 2 * Billion THEN 2
                ELSE IF tender.amount >= Billion THEN 1 ELSE 0
    IN  /\ risksN = (IF tier = 2 THEN 1 ELSE 0)
        /\ controlN = (IF tier = 2 THEN 1 ELSE 0)
        /\ warningsN = (IF tier = 1 THEN 1 ELSE 0)
        /\ SeverityOf(last.out.risks, "financial") \subseteq {"high"}
        /\ SeverityOf(last.out.warnings, "financial") \subseteq {"medium"}
        /\ ~(risksN > 0 /\ warningsN > 0)
        /\ last.out.riskScore =
             Min(PointsOf(last.out.risks, TRUE) + PointsOf(last.out.warnings, FALSE), 100)

C10_Witness ==
  /\ Evaluated
  /\ tender.amount = 1500 * Million
  /\ tender.category = "other"
  /\ CountOf(last.out.warnings, "financial") = 1
  /\ last.out.riskScore \in {15, 30}

\* C11: for a tender whose category is not construction neither the
\* seasonal rule nor the timeline rule triggers, whatever the execution
\* dates and the amount: the assessment has no seasonal and no timeline
\* finding, and no timing recommendation.
C11_NonConstructionNoSeasonalNoTimeline ==
  (Evaluated /\ tender.category # "construction") =>
    /\ {"seasonal", "timeline"} \cap TypesOf(last.out.risks) = {}
    /\ {"seasonal", "timeline"} \cap TypesOf(last.out.warnings) = {}
    /\ "timing" \notin TypesOf(last.out.recommendations)
    /\ last.out.riskScore <= 25 + 15

C11_Witness ==
  /\ Evaluated
  /\ tender.category = "medical"
  /\ tender.amount = 2500 * Million
  /\ tender.executionStart = Date(0, 0, 15)
  /\ tender.executionEnd = Date(0, 2, 1)
  /\ TypesOf(last.out.risks) = {"financial"}

\* the tender of the end-to-end it scenario, evaluated 60 days before its
\* deadline
ItScenario ==
  /\ Evaluated
  /\ tender.category = "it"
  /\ tender.amount = 100 * Million
  /\ getMonth(tender.executionStart) \in 3..9
  /\ getMonth(tender.executionEnd) \in 3..9
  /\ tender.deadline = last.now + 60 * DayTicks

\* C12: the it scenario (100 million, execution outside the winter months,
\* deadline in 60 days) yields no risk, no warning, exactly one
\* recommendation, of type support, riskScore 0 and riskLevel low.
C12_ItScenario ==
  ItScenario =>
    /\ last.out.risks = <<>>
    /\ last.out.warnings = <<>>
    /\ Len(last.out.recommendations) = 1
    /\ last.out.recommendations[1].type = "support"
    /\ last.out.riskScore = 0
    /\ last.out.riskLevel = "low"

C12_Witness == ItScenario /\ Len(last.out.recommendations) = 1

\* C13: whatever the outcome of the external call, the invocation ends with
\* a returned result whose success flag is true and whose details are the
\* rule engine's assessment of the tender: the failure is not passed on.
C13_FailureNotPropagated ==
  pc = "done" =>
    /\ result.success = TRUE
    /\ result.source \in {"ai", "local"}
    /\ \E now \in 0..clock : result.details = analyzeTenderRisks(tender, now)

C13_Witness ==
  /\ pc = "done"
  /\ net = "status-500"
  /\ result.success = TRUE
  /\ result.error = "OpenRouter API error"

\* the trigger of the seasonal rule, from the tender's fields
SeasonalTrigger ==
  /\ tender.category = "construction"
  /\ \/ getMonth(tender.executionStart) \in {10, 11, 0, 1, 2}
     \/ getMonth(tender.executionEnd) \in {10, 11, 0, 1, 2}

\* C19: the seasonal rule triggers iff the category is construction and the
\* month of executionStart or of executionEnd is one of Nov, Dec, Jan, Feb,
\* Mar; it then adds 35, exactly one high seasonal risk and exactly one
\* timing recommendation, and otherwise has no effect.
C19_SeasonalRule ==
  Evaluated =>
    LET n == IF SeasonalTrigger THEN 1 ELSE 0
    IN  /\ CountOf(last.out.risks, "seasonal") = n
        /\ CountOf(last.out.recommendations, "timing") = n
        /\ SeverityOf(last.out.risks, "seasonal") \subseteq {"high"}
        /\ "seasonal" \notin TypesOf(last.out.warnings)
        /\ RiskPoints("seasonal") = 35
        /\ ScoreIsSumOfFindings(last.out)

C19_Witness ==
  /\ Evaluated
  /\ tender.category = "construction"
  /\ getMonth(tender.executionStart) = 9
  /\ getMonth(tender.executionEnd) = 10
  /\ tender.amount = 100 * Million
  /\ CountOf(last.out.risks, "seasonal") = 1
  /\ last.out.riskScore \in {35, 50}

\* C20: the combined rule triggers iff the seasonal rule's condition holds
\* and the amount is at least 1 billion; it adds 20, one critical combined
\* risk and one guarantee recommendation, on top of the seasonal and the
\* financial effects, which are applied in the same evaluation.
C20_CombinedRule ==
  Evaluated =>
    LET trigger == SeasonalTrigger /\ tender.amount >= Billion
        n == IF trigger THEN 1 ELSE 0
    IN  /\ CountOf(last.out.risks, "combined") = n
        /\ CountOf(last.out.recommendations, "guarantee") = n
        /\ SeverityOf(last.out.risks, "combined") \subseteq {"critical"}
        /\ "combined" \notin TypesOf(last.out.warnings)
        /\ trigger =>
             /\ CountOf(last.out.risks, "seasonal") = 1
             /\ CountOf(last.out.risks, "financial")
                  + CountOf(last.out.warnings, "financial") = 1
             /\ last.out.riskScore >= 35 + 15 + 20
        /\ RiskPoints("combined") = 20
        /\ ScoreIsSumOfFindings(last.out)

C20_Witness ==
  /\ Evaluated
  /\ tender.amount = 1000 * Million
  /\ CountOf(last.out.risks, "combined") = 1
  /\ CountOf(last.out.warnings, "financial") = 1
  /\ last.out.riskScore = 35 + 15 + 20

\* C14: an invocation issues at most one external call and never repeats
\* it: once the call has failed the invocation ends with the local result,
\* still with a single call made.
C14_SingleCallNoRetry ==
  /\ calls \in {0, 1}
  /\ pc \in {"awaitFetch", "awaitJson"} => calls = 1
  /\ (net \in FetchOutcomes \ {"status-200"} /\ pc # "awaitFetch") =>
       (pc = "done" /\ result.source = "local" /\ calls = 1)

C14_Witness ==
  /\ pc = "done"
  /\ net = "status-429"
  /\ calls = 1
  /\ result.source = "local"

\* C15 as stated: an unknown station or tender identifier gives a not-found
\* outcome of its own: the route answers 404 exactly when the station is
\* unknown to the upstream and the upstream said so, never for a failure of
\* the upstream or the network; a tender lookup of an unknown identifier
\* returns the not-found result and does not throw.
C15_Original ==
  /\ stPc = "responded" =>
       (stHttp = 404 <=>
          (stId \notin KnownStations /\ stNet.kind \in NotFoundKinds))
  /\ (lookup.id \in LookupIds /\ ~lookup.thrown) =>
       (lookup.success <=> lookup.id \in TenderIds)
  /\ (lookup.id \in LookupIds /\ ~lookup.thrown /\ lookup.id \notin TenderIds) =>
       lookup.error = "Tender ne nayden"

\* a detail request of the current getAllAirQualityData call failed
SomeDetailFailed == \E i \in DOMAIN detNet : detNet[i].kind \in FailureKinds

\* C16 as stated: on an upstream failure the service returns a structured
\* unsuccessful result with an error message; getAllAirQualityData returns
\* a complete successful result or an unsuccessful one, never a successful
\* result in which a station with data lacks its details.
C16_Original ==
  allPc = "done" =>
    /\ (boundsNet.kind # "ok" \/ SomeDetailFailed) =>
         (~allResult.success /\ allResult.error \notin {"absent", "none"})
    /\ allResult.success =>
         \A i \in DOMAIN allResult.stations :
           allResult.stations[i].hasData =>
             allResult.stations[i].details # NoStation

\* C16 amended: on an upstream failure the service functions return a
\* structured result instead of throwing.  getAllAirQualityData returns the
\* unsuccessful result of the bounds query (success false, an error message,
\* no stations) when that query fails; when it succeeds the result is
\* successful and lists every station, a station whose detail request
\* failed carrying details null and every other station with data its
\* details.
C16_Amended ==
  allPc = "done" =>
    IF boundsNet.kind # "ok"
    THEN /\ ~allResult.success
         /\ allResult.error \notin {"absent", "none"}
         /\ allResult.stations = <<>>
    ELSE /\ allResult.success
         /\ Len(allResult.stations) = Len(boundsNet.stations)
         /\ \A i \in DOMAIN detNet :
              /\ allResult.stations[i].hasData
              /\ IF detNet[i].kind = "ok"
                 THEN allResult.stations[i].details.id = allResult.stations[i].id
                 ELSE allResult.stations[i].details = NoStation

C16_Witness ==
  /\ allPc = "done"
  /\ allResult.success
  /\ Len(detNet) = 2
  /\ detNet[1].kind = "status-500"
  /\ detNet[2].kind = "ok"
  /\ allResult.stations[1].details = NoStation
  /\ allResult.stations[2].details.id = "2"

\* the table of the classifier: kind -> <<good, moderate>>
SpecThresholds ==
  [pm25 |-> <<15, 35>>, pm10 |-> <<45, 75>>, no2 |-> <<40, 100>>,
   so2 |-> <<20, 80>>, co |-> <<4, 10>>]

\* C17: getPollutantStatus returns good iff value <= good threshold,
\* moderate iff good < value <= moderate threshold, poor above it, with the
\* table pm25 15/35, pm10 45/75, no2 40/100, so2 20/80, co 4/10; a kind
\* outside the table gives unknown.
C17_PollutantStatus ==
  pollutantCall.status # "none" =>
    LET type == pollutantCall.type
        value == pollutantCall.value
        status == pollutantCall.status
    IN  IF type \in DOMAIN SpecThresholds
        THEN LET good == SpecThresholds[type][1] * Resolution
                 moderate == SpecThresholds[type][2] * Resolution
             IN  /\ status \in {"good", "moderate", "poor"}
                 /\ status = "good" <=> value <= good
                 /\ status = "moderate" <=> (good < value /\ value <= moderate)
                 /\ status = "poor" <=> value > moderate
        ELSE status = "unknown"

C17_Witness ==
  /\ pollutantCall.status = "moderate"
  /\ pollutantCall.type = "pm25"
  /\ pollutantCall.value = 35 * Resolution
  /\ aqiCall.status # "none"

\* C18: getAqiStatus maps an index through the inclusive breakpoints 50,
\* 100, 150, 200, 300 to good, moderate, unhealthy-sensitive, unhealthy,
\* very-unhealthy, and to hazardous above 300; null or a missing index
\* gives unknown with the no-data label.
C18_AqiStatus ==
  aqiCall.status # "none" =>
    LET aqi == aqiCall.aqi
        status == aqiCall.status
    IN  /\ aqi.t \in {"null", "undefined"} =>
             (status = "unknown" /\ aqiCall.label = "Net dannykh")
        /\ aqi.t = "number" =>
             status = (IF aqi.v <= 50 THEN "good"
                       ELSE IF aqi.v <= 100 THEN "moderate"
                       ELSE IF aqi.v <= 150 THEN "unhealthy-sensitive"
                       ELSE IF aqi.v <= 200 THEN "unhealthy"
                       ELSE IF aqi.v <= 300 THEN "very-unhealthy"
                       ELSE "hazardous")

C18_Witness ==
  /\ aqiCall.status = "good"
  /\ aqiCall.aqi = Num(50)
  /\ pollutantCall.status # "none"
\* the number of days of the execution window, rounded up
ExecutionDays == Ceil(tender.executionEnd - tender.executionStart, DayTicks)

\* the trigger of the timeline rule, from the tender's fields:
\* days / 30 < (amount / 1e9) * 3 * 0.7, that is days * 1e9 < 63 * amount
TimelineTrigger ==
  /\ tender.category = "construction"
  /\ 2 * tender.amount >= Billion
  /\ ExecutionDays * Billion < 63 * tender.amount

\* each recommendation belongs to a rule other than the timeline rule
RecommendationsAccounted(out) ==
  /\ TypesOf(out.recommendations) \subseteq
       {"timing", "control", "guarantee", "currency", "support"}
  /\ CountOf(out.recommendations, "timing") = CountOf(out.risks, "seasonal")
  /\ CountOf(out.recommendations, "control") = CountOf(out.risks, "financial")
  /\ CountOf(out.recommendations, "guarantee") = CountOf(out.risks, "combined")
  /\ CountOf(out.recommendations, "currency") = CountOf(out.warnings, "category")
  /\ CountOf(out.recommendations, "support") = (IF tender.category = "it" THEN 1 ELSE 0)

\* C21: the timeline rule triggers iff the category is construction, the
\* amount is at least 0.5 billion and the execution days (rounded up)
\* divided by 30 are fewer than 0.7 * 3 months per billion; it then adds 20
\* and exactly one high timeline risk, and no recommendation.
C21_TimelineRule ==
  Evaluated =>
    LET n == IF TimelineTrigger THEN 1 ELSE 0
    IN  /\ CountOf(last.out.risks, "timeline") = n
        /\ SeverityOf(last.out.risks, "timeline") \subseteq {"high"}
        /\ "timeline" \notin TypesOf(last.out.warnings)
        /\ RecommendationsAccounted(last.out)
        /\ RiskPoints("timeline") = 20
        /\ ScoreIsSumOfFindings(last.out)

\* 0.5 billion over 5 days and a tick (6 days): the timeline risk alone
C21_Witness ==
  /\ Evaluated
  /\ tender.category = "construction"
  /\ tender.amount = 500 * Million
  /\ ExecutionDays = 6
  /\ tender.executionEnd - tender.executionStart < 6 * DayTicks
  /\ TypesOf(last.out.risks) = {"timeline"}
  /\ last.out.riskScore \in {20, 35}

\* the increments of rules 1-5 for the tender evaluated at now, from the
\* tender's fields
RuleIncrements(now) ==
  (IF SeasonalTrigger THEN 35 ELSE 0)
  + (IF tender.amount >= 2 * Billion THEN 25
     ELSE IF tender.amount >= Billion THEN 15 ELSE 0)
  + (IF DaysUntil(tender.deadline, now) > 0 /\ DaysUntil(tender.deadline, now) < 10
     THEN 15 ELSE 0)
  + (IF TimelineTrigger THEN 20 ELSE 0)
  + (IF SeasonalTrigger /\ tender.amount >= Billion THEN 20 ELSE 0)

\* C22: the category advisories never change the score.  A medical tender
\* of at least 0.5 billion gets one medium category warning and one currency
\* recommendation; an it tender gets exactly one support recommendation and
\* no category warning; no other tender gets any of these; and riskScore is
\* the sum of the increments of rules 1-5 only, limited to 100.
C22_AdvisoriesKeepScore ==
  Evaluated =>
    LET medical == tender.category = "medical" /\ 2 * tender.amount >= Billion
        m == IF medical THEN 1 ELSE 0
        i == IF tender.category = "it" THEN 1 ELSE 0
    IN  /\ CountOf(last.out.warnings, "category") = m
        /\ SeverityOf(last.out.warnings, "category") \subseteq {"medium"}
        /\ CountOf(last.out.recommendations, "currency") = m
        /\ CountOf(last.out.recommendations, "support") = i
        /\ TypesOf(last.out.risks) \cap {"category", "currency", "support"} = {}
        /\ last.out.riskScore = Min(RuleIncrements(last.now), 100)

\* a medical tender of 0.5 billion far from its deadline: the advisory is
\* there and the score is 0
C22_Witness ==
  /\ Evaluated
  /\ tender.category = "medical"
  /\ tender.amount = 500 * Million
  /\ CountOf(last.out.warnings, "category") = 1
  /\ CountOf(last.out.recommendations, "currency") = 1
  /\ last.out.riskScore = 0

\* the kinds of the pieces of a text, in order
KindsOf(text) == [i \in DOMAIN text |-> text[i][1]]

\* the positions of the pieces of the given kind
PlacesOf(text, kind) == {i \in DOMAIN text : text[i][1] = kind}

\* C23: the summary starts with a header stating the score and the level.
\* With no risk and no warning it holds only the no-significant-risk
\* sentence.  Otherwise it names the tender, then lists the risks section
\* (count, one bullet per risk title, in order) and after it the warnings
\* section (count, one bullet per warning title, in order); a section whose
\* list is empty is left out, and the counts are the lengths of the lists.
C23_SummaryLayout ==
  Evaluated =>
    LET out == last.out
        text == out.summary
        nr == Len(out.risks)
        nw == Len(out.warnings)
        \* where the warnings section starts
        base == IF nr > 0 THEN 2 + nr + 2 ELSE 2
    IN  /\ text[1] = <<"header", out.riskScore, levelText(out.riskLevel)>>
        /\ PlacesOf(text, "header") = {1}
        /\ (nr = 0 /\ nw = 0) =>
             /\ Len(text) = 2
             /\ text[2][1] = "no-significant-risks"
        /\ (nr > 0 \/ nw > 0) =>
             /\ text[2] = <<"needs-attention", tender.title>>
             /\ PlacesOf(text, "no-significant-risks") = {}
             /\ Len(text) = base + (IF nw > 0 THEN nw + 1 ELSE 0)
             /\ PlacesOf(text, "risks") = (IF nr > 0 THEN {3} ELSE {})
             /\ nr > 0 =>
                  /\ text[3] = <<"risks", nr>>
                  /\ \A i \in 1..nr : text[3 + i] = <<"bullet", out.risks[i].title>>
             /\ PlacesOf(text, "warnings") = (IF nw > 0 THEN {base + 1} ELSE {})
             /\ nw > 0 =>
                  /\ text[base + 1] = <<"warnings", nw>>
                  /\ \A i \in 1..nw :
                       text[base + 1 + i] = <<"bullet", out.warnings[i].title>>
             /\ Cardinality(PlacesOf(text, "bullet")) = nr + nw

\* an assessment with four risks and one warning
C23_Witness ==
  /\ Evaluated
  /\ Len(last.out.risks) = 4
  /\ Len(last.out.warnings) = 1
  /\ Len(last.out.summary) = 10
  /\ KindsOf(last.out.summary)[3] = "risks"
  /\ KindsOf(last.out.summary)[9] = "warnings"

\* the place of a type in an order of types
RankIn(order, type) == CHOOSE i \in DOMAIN order : order[i] = type

\* the findings carry types of the order only, each at most once, in the
\* order's sequence
FollowsOrder(findings, order) ==
  /\ \A i \in DOMAIN findings : \E j \in DOMAIN order : order[j] = findings[i].type
  /\ \A i, j \in DOMAIN findings :
       i < j => RankIn(order, findings[i].type) < RankIn(order, findings[j].type)

\* C24: risks come in the order seasonal, financial, timeline, combined;
\* warnings in the order financial, deadline, category; recommendations in
\* the order timing, control, guarantee, currency, support; and no type
\* occurs more than once in an assessment.
C24_EvaluationOrder ==
  Evaluated =>
    LET out == last.out
        all == out.risks \o out.warnings \o out.recommendations
    IN  /\ FollowsOrder(out.risks, <<"seasonal", "financial", "timeline", "combined">>)
        /\ FollowsOrder(out.warnings, <<"financial", "deadline", "category">>)
        /\ FollowsOrder(out.recommendations,
                        <<"timing", "control", "guarantee", "currency", "support">>)
        /\ \A i, j \in DOMAIN all : all[i].type = all[j].type => i = j

\* all four risks and all three recommendations of a construction tender
C24_Witness ==
  /\ Evaluated
  /\ [i \in DOMAIN last.out.risks |-> last.out.risks[i].type]
       = <<"seasonal", "financial", "timeline", "combined">>
  /\ [i \in DOMAIN last.out.recommendations |-> last.out.recommendations[i].type]
       = <<"timing", "control", "guarantee">>
  /\ Len(last.out.warnings) = 1

\* C25: a tender whose category is not construction has riskScore at most
\* 40 (25 of the financial rule and 15 of the deadline rule), so its
\* riskLevel is never high.
C25_NonConstructionAtMost40 ==
  (Evaluated /\ tender.category # "construction") =>
    /\ last.out.riskScore <= 40
    /\ last.out.riskLevel # "high"
    /\ TypesOf(last.out.risks) \subseteq {"financial"}

\* a medical tender of 2.5 billion over the winter, 5 days before its
\* deadline, reaches the 40
C25_Witness ==
  /\ Evaluated
  /\ tender.category = "medical"
  /\ tender.amount = 2500 * Million
  /\ getMonth(tender.executionStart) = 0
  /\ last.out.riskScore = 40
  /\ last.out.riskLevel = "medium"

\* C26: an assessment with a critical combined risk also has the seasonal
\* risk and a financial risk or a financial warning; its riskScore is at
\* least 70 and its riskLevel is high.
C26_CombinedImpliesHigh ==
  (Evaluated /\ "combined" \in TypesOf(last.out.risks)) =>
    /\ SeverityOf(last.out.risks, "combined") = {"critical"}
    /\ "seasonal" \in TypesOf(last.out.risks)
    /\ \/ "financial" \in TypesOf(last.out.risks)
       \/ "financial" \in TypesOf(last.out.warnings)
    /\ last.out.riskScore >= 70
    /\ last.out.riskLevel = "high"

\* the least such assessment: seasonal and combined risks with the financial
\* warning, 35 + 15 + 20
C26_Witness ==
  /\ Evaluated
  /\ TypesOf(last.out.risks) = {"seasonal", "combined"}
  /\ TypesOf(last.out.warnings) = {"financial"}
  /\ last.out.riskScore = 70
  /\ last.out.riskLevel = "high"

\* every started call of loadAirQualityData has ended
LoadsCompleted == started > 0 /\ awaitingFetch = 0 /\ awaitingJson = 0

\* C27 as stated: under any interleaving of loadAirQualityData calls, once
\* every started load has completed and every pending removal timer has
\* fired, no element with id loading-overlay is left in the document.
C27_Original == (LoadsCompleted /\ timers = <<>>) => overlays = <<>>

\* C28: after any sequence of tab clicks, successful and failed loads and
\* interval callbacks, at most one auto-update interval timer is active (the
\* one updateInterval holds), and an interval callback reloads the data only
\* while the active tab is air.
C28_OneInterval ==
  /\ Cardinality(intervals) <= 1
  /\ intervals = (IF updateInterval # 0 THEN {updateInterval} ELSE {})
  /\ refresh.reloaded => refresh.tab = "air"

\* two loads have succeeded, the second started by the interval callback,
\* and the first one's timer has been replaced
C28_Witness ==
  /\ updateInterval = 2
  /\ intervals = {2}
  /\ refresh.reloaded
  /\ LoadsCompleted

\* the request of the call has settled: its fetch was rejected, or its
\* response has been read
Settled(call) ==
  \/ (call.pc = "awaitFetch" /\ call.net = "rejected")
  \/ (call.pc = "awaitJson" /\ call.body \in ButtonBodies)

\* C29: a button disabled at the start of handleAIAnalyze or of
\* analyzeTenderWithAI is enabled again once the request has settled, be it
\* with a success, with an unsuccessful result, or with a network or parse
\* error.
C29_ButtonReEnabled ==
  /\ (airBtn.disabled /\ Settled(airCall)) ~> ~airBtn.disabled
  /\ \A k \in {"table", "modal"} :
       (tenderBtn.disabled /\ tenderCalls[k].button /\ Settled(tenderCalls[k]))
         ~> ~tenderBtn.disabled

\* a rejected fetch of handleAIAnalyze and an unsuccessful result of
\* analyzeTenderWithAI, both buttons enabled again
C29_Witness ==
  /\ airCall.pc = "done" /\ airCall.net = "rejected"
  /\ ~airBtn.disabled
  /\ tenderCalls["table"].pc = "done" /\ tenderCalls["table"].body = "failure"
  /\ tenderCalls["table"].button
  /\ ~tenderBtn.disabled

\* the stations of the bounds answer the result was built from
Returned == boundsNet.stations

\* the readings of the returned stations that have data
ReadingsOf(list) ==
  SelectSeq([i \in DOMAIN list |-> list[i].aqi], LAMBDA raw : raw.t # "dash")

RECURSIVE SumOf(_)
SumOf(raws) == IF raws = <<>> THEN 0 ELSE Head(raws).v + SumOf(Tail(raws))

\* C30: in every successful result of getAllAirQualityData each station of
\* the bounds answer appears exactly once, the stations with data before the
\* stations without; summary.total = summary.withData + summary.withoutData
\* is the number of stations; a station without data has details null and
\* aqiStatus unknown; averageAqi is the rounded mean of the AQI of the
\* stations with data, and null with status unknown when there are none.
C30_AllStationsResult ==
  (allPc = "done" /\ allResult.success) =>
    LET out == allResult.stations
        readings == ReadingsOf(Returned)
    IN  /\ Len(out) = Len(Returned)
        /\ \A i \in DOMAIN Returned :
             Cardinality({j \in DOMAIN out : out[j].idx = Returned[i].idx}) = 1
        /\ \A i, j \in DOMAIN out : (out[i].hasData /\ ~out[j].hasData) => i < j
        /\ \A j \in DOMAIN out :
             out[j].hasData <=>
               \E i \in DOMAIN Returned :
                 Returned[i].idx = out[j].idx /\ Returned[i].aqi.t # "dash"
        /\ allResult.summary.total = Len(out)
        /\ allResult.summary.withData =
             Cardinality({j \in DOMAIN out : out[j].hasData})
        /\ allResult.summary.total =
             allResult.summary.withData + allResult.summary.withoutData
        /\ \A j \in DOMAIN out :
             ~out[j].hasData =>
               (out[j].details = NoStation /\ out[j].aqiStatus.status = "unknown")
        /\ readings = <<>> =>
             /\ allResult.averageAqi = JsNull
             /\ allResult.averageAqiStatus.status = "unknown"
        /\ (readings # <<>> /\ \A i \in DOMAIN readings : readings[i].t = "digits") =>
             allResult.averageAqi =
               Num((2 * SumOf(readings) + Len(readings)) \div (2 * Len(readings)))

\* a station without data listed first by the upstream, then stations with
\* AQI 50 and 151: mean 100.5, rounded to 101
C30_Witness ==
  /\ allPc = "done"
  /\ allResult.success
  /\ Len(Returned) = 3
  /\ Returned[1].aqi = Dash
  /\ allResult.averageAqi = Num(101)
  /\ ~allResult.stations[3].hasData

====
